---------------------------- MODULE Spec2Model ----------------------------
(***************************************************************************)
(* Model of the SkillEcosystem class (src/unnamed/part_000): the           *)
(* force-directed layout (updatePhysics), the pointer handlers installed   *)
(* by setupEventListeners, the hover debounce timer, the resize debounce   *)
(* timer and the requestAnimationFrame loop.                               *)
(*                                                                         *)
(* Numbers.  A JavaScript Number is modelled as a fixed-point value: an    *)
(* integer count of 1/P pixel, or the distinguished value NaN.  Every      *)
(* arithmetic operator propagates NaN and every comparison with NaN is     *)
(* false, as in IEEE-754.  Quotients are rounded to the nearest unit.      *)
(* The only way the code can produce a non-finite value from finite ones   *)
(* is 0/0 in (dx / dist) when two nodes coincide, which is NaN.            *)
(*                                                                         *)
(* Object references (a node held in draggedNode, hoveredNode or in a      *)
(* connection) are modelled by the node's index in this.nodes; null and    *)
(* undefined are the distinguished values Null and Undefined.              *)
(***************************************************************************)
EXTENDS Integers, Sequences, FiniteSets, TLC

VARIABLES
    nodes,            \* this.nodes: index -> [x, y, vx, vy, radius]
    connections,      \* this.connections: sequence of [from, to]
    draggedNode,      \* this.draggedNode
    hoveredNode,      \* this.hoveredNode
    mouseX, mouseY,   \* closure variables of setupEventListeners
    mouseMoveTimeout, \* closure variable: id of the hover timer last set
    resizeTimeout,    \* closure variable: id of the resize timer last set
    timers,           \* timeouts set and not yet fired or cleared: [id, fn, delay]
    width, height,    \* this.width, this.height
    centerX, centerY, \* this.centerX, this.centerY
    cursor,           \* this.canvas.style.cursor
    popup,            \* this.popup: [hidden, node, x, y]
    animationId,      \* this.animationId
    scheduled,        \* frame callbacks requested and not yet run or cancelled
    nextHandle,       \* the handle the next requestAnimationFrame returns
    physics,          \* this.friction, this.repulsionStrength, ... (constructor)
    pointerInside,    \* environment: the pointer is over the canvas (it was
                      \* in the last pointer event, which was no 'mouseleave')
    events            \* handler and callback runs so far (exploration bound)

vars == <<nodes, connections, draggedNode, hoveredNode, mouseX, mouseY,
          mouseMoveTimeout, resizeTimeout, timers, width, height, centerX, centerY,
          cursor, popup, animationId, scheduled, nextHandle, physics,
          pointerInside, events>>

---------------------------------------------------------------------------
(* Bounds of the model *)

\* Fixed-point resolution: units per pixel.
P == 100

\* Handler and callback runs explored from the initial state.
MaxEvents == 4

\* Frames run in the layouts set up for the force laws.
MaxFrames == 120
\* Frames run from the initial placement when the layout is left to settle
SettleFrames == 1000

\* Pixels around the center within which the motion of a node is below the
\* fixed-point resolution: a pull of less than one unit, velocities of a
\* few units that the friction factor no longer reduces.
DeadBand == 3

---------------------------------------------------------------------------
(* Values *)

\* null, and the undefined that Array.prototype.find returns on no match;
\* neither is a node index.
Null == -1
Undefined == -2

\* The NaN of IEEE-754 arithmetic, outside the range of every finite value
\* the model computes.
NaN == -(2147483647)

IsNaN(a) == a = NaN

Px(n) == n * P

\* a / b rounded to the nearest integer (b > 0), halves away from zero.
RoundDiv(a, b) ==
    IF a >= 0 THEN (2 * a + b) \div (2 * b)
              ELSE -((2 * (-a) + b) \div (2 * b))

Add(a, b) == IF IsNaN(a) \/ IsNaN(b) THEN NaN ELSE a + b
Sub(a, b) == IF IsNaN(a) \/ IsNaN(b) THEN NaN ELSE a - b
\* a * (q[1] / q[2]) for a rational constant q
MulQ(a, q) == IF IsNaN(a) THEN NaN ELSE RoundDiv(a * q[1], q[2])
\* a < b; false when either is NaN
Lt(a, b) == ~IsNaN(a) /\ ~IsNaN(b) /\ a < b

RECURSIVE SqrtSearch(_, _, _)
SqrtSearch(n, lo, hi) ==
    IF hi - lo <= 1 THEN lo
    ELSE LET mid == (lo + hi) \div 2
         IN  IF mid * mid <= n THEN SqrtSearch(n, mid, hi)
                               ELSE SqrtSearch(n, lo, mid)

\* Math.sqrt of a (non-negative) square distance: the integer square root.
Sqrt(n) == IF IsNaN(n) THEN NaN ELSE SqrtSearch(n, 0, 46341)

\* dx * dx + dy * dy (in square units)
SumSq(dx, dy) == IF IsNaN(dx) \/ IsNaN(dy) THEN NaN ELSE dx * dx + dy * dy

\* (d / dist) * force: 0/0 is NaN
UnitTimes(d, dist, force) ==
    IF IsNaN(d) \/ IsNaN(dist) \/ IsNaN(force) THEN NaN
    ELSE IF dist = 0 THEN NaN
    ELSE RoundDiv(d * force, dist)

---------------------------------------------------------------------------
(* Physics parameters (constructor) *)

\* friction 0.85, attractionStrength 0.001 and centerAttraction 0.002 are
\* the rationals <<numerator, denominator>>
DefaultPhysics ==
    [ friction |-> <<85, 100>>,
      repulsionStrength |-> 8000,
      attractionStrength |-> <<1, 1000>>,
      centerAttraction |-> <<2, 1000>>,
      minDistance |-> 100 ]

\* const optimalDist = 150 (updatePhysics)
optimalDist == 150
nodeRadius == 30
boundaryMargin == 10
bounce == <<-1, 2>>

---------------------------------------------------------------------------
(* Environment: the canvas' place in the viewport, the sizes its container
   takes, the places pointer events occur and the values Math.random gives *)

\* rect.left and rect.top of canvas.getBoundingClientRect(), in pixels
RectLeft == 8
RectTop == 16

\* <<rect.width, rect.height>> of the container, in pixels: when the page
\* loads, and the sizes a later resize may give it
InitialSize == <<360, 240>>
ContainerSizes == { InitialSize, <<300, 200>> }

\* <<clientX, clientY>> of pointer events, in pixels
ClientPoints ==
    { <<240 + RectLeft, 120 + RectTop>>,
      <<232 + RectLeft, 140 + RectTop>>,
      <<120 + RectLeft, 120 + RectTop>>,
      <<10 + RectLeft, 10 + RectTop>> }

\* (Math.random() - 0.5) * 50 for the eight nodes, in pixels: per axis a
\* value in [-25, 25)
JitterPatterns ==
    { [x |-> <<0, 0, 0, 0, 0, 0, 0, 0>>, y |-> <<0, 0, 0, 0, 0, 0, 0, 0>>],
      [x |-> <<-10, 5, 20, -25, 0, 15, -5, 10>>,
       y |-> <<5, -20, 10, 0, -15, 24, -5, -5>>] }

---------------------------------------------------------------------------
(* initializeSkills *)

\* skills[i].name, in catalog order
skills ==
    << "Industrial Engineering", "ERP Systems", "Python", "IFS Applications",
       "Data Analysis", "JavaScript", "Process Optimization",
       "SQL & Databases" >>

connectionMap ==
    << <<"Industrial Engineering", "Process Optimization">>,
       <<"Industrial Engineering", "ERP Systems">>,
       <<"ERP Systems", "IFS Applications">>,
       <<"Python", "Data Analysis">>,
       <<"Python", "SQL & Databases">>,
       <<"JavaScript", "Data Analysis">>,
       <<"IFS Applications", "SQL & Databases">>,
       <<"Data Analysis", "Process Optimization">>,
       <<"ERP Systems", "SQL & Databases">> >>

\* Indices of this.nodes (JavaScript arrays start at 0)
NodeIds == 0 .. (Len(skills) - 1)

\* 10000 * Math.cos(index / 8 * 2 * PI) and 10000 * Math.sin(...)
CosTable == <<10000, 7071, 0, -7071, -10000, -7071, 0, 7071>>
SinTable == <<0, 7071, 10000, 7071, 0, -7071, -10000, -7071>>

Min(a, b) == IF a < b THEN a ELSE b

\* The node built for skills[index] (skills.map callback)
createNode(index, w, h, cx, cy, jitter) ==
    LET radius == MulQ(Min(w, h), <<1, 4>>)
    IN  [ id |-> index,
          x |-> cx + RoundDiv(CosTable[index + 1] * radius, 10000)
                   + Px(jitter.x[index + 1]),
          y |-> cy + RoundDiv(SinTable[index + 1] * radius, 10000)
                   + Px(jitter.y[index + 1]),
          vx |-> 0,
          vy |-> 0,
          radius |-> Px(nodeRadius),
          name |-> skills[index + 1] ]

\* The forward scan of find, from index i on
RECURSIVE FindFrom(_, _, _)
FindFrom(ns, name, i) ==
    IF i \notin DOMAIN ns THEN Undefined
    ELSE IF ns[i].name = name THEN i
    ELSE FindFrom(ns, name, i + 1)

\* this.nodes.find(n => n.name === name): the first match, or undefined
find(ns, name) == FindFrom(ns, name, 0)

\* createConnections with toNode looked up by the 'from' name
createConnectionsFromTwice(ns, cmap) ==
    [ k \in DOMAIN cmap |->
        [from |-> find(ns, cmap[k][1]), to |-> find(ns, cmap[k][1])] ]

\* connectionMap.map(([from, to]) => ({from: fromNode, to: toNode}))
createConnections(ns, cmap) ==
    [ k \in DOMAIN cmap |->
        [from |-> find(ns, cmap[k][1]), to |-> find(ns, cmap[k][2])] ]

---------------------------------------------------------------------------
(* getNodeAtPosition *)

\* distance < node.radius for the node at index i
Hit(ns, i, x, y) ==
    LET dx == Sub(x, ns[i].x)
        dy == Sub(y, ns[i].y)
        distance == Sqrt(SumSq(dx, dy))
    IN  Lt(distance, ns[i].radius)

\* The reverse scan, from index i down
RECURSIVE ScanFrom(_, _, _, _)
ScanFrom(ns, i, x, y) ==
    IF i < 0 THEN Null
    ELSE IF Hit(ns, i, x, y) THEN i
    ELSE ScanFrom(ns, i - 1, x, y)

\* The scan in insertion order: the first node in this.nodes hit, or null
RECURSIVE ForwardScanFrom(_, _, _, _)
ForwardScanFrom(ns, i, x, y) ==
    IF i \notin DOMAIN ns THEN Null
    ELSE IF Hit(ns, i, x, y) THEN i
    ELSE ForwardScanFrom(ns, i + 1, x, y)

getNodeAtPositionForward(ns, x, y) == ForwardScanFrom(ns, 0, x, y)

getNodeAtPosition(ns, x, y) == ScanFrom(ns, Cardinality(DOMAIN ns) - 1, x, y)

---------------------------------------------------------------------------
(* updatePhysics *)

\* Repulsion with dx = nodeB.x - nodeA.x, dy = nodeB.y - nodeA.y: the force
\* on node i points toward node j
RepulsionInward(ns, i, j, pr) ==
    LET dx == Sub(ns[j].x, ns[i].x)
        dy == Sub(ns[j].y, ns[i].y)
        distSq == SumSq(dx, dy)
        dist == Sqrt(distSq)
        force == RoundDiv(pr.repulsionStrength * P * P,
                          RoundDiv(distSq + P * P, P))
    IN  IF Lt(dist, Px(pr.minDistance * 3))
        THEN <<UnitTimes(dx, dist, force), UnitTimes(dy, dist, force)>>
        ELSE <<0, 0>>

\* 1. Repulsion of node i from node j: <<fx, fy>> added when dist is below
\* minDistance * 3.  repulsionStrength / (distSq + 1) in pixels is
\* repulsionStrength * P^3 / (distSq + P^2) in units; one factor P is taken
\* out of the denominator first.
Repulsion(ns, i, j, pr) ==
    LET dx == Sub(ns[i].x, ns[j].x)
        dy == Sub(ns[i].y, ns[j].y)
        distSq == SumSq(dx, dy)
        dist == Sqrt(distSq)
        force == RoundDiv(pr.repulsionStrength * P * P,
                          RoundDiv(distSq + P * P, P))
    IN  IF Lt(dist, Px(pr.minDistance * 3))
        THEN <<UnitTimes(dx, dist, force), UnitTimes(dy, dist, force)>>
        ELSE <<0, 0>>

\* The inner loop over j, from index j on (i === j is skipped)
RECURSIVE RepulsionFrom(_, _, _, _)
RepulsionFrom(ns, i, j, pr) ==
    IF j \notin DOMAIN ns THEN <<0, 0>>
    ELSE LET rest == RepulsionFrom(ns, i, j + 1, pr)
             f == IF i = j THEN <<0, 0>> ELSE Repulsion(ns, i, j, pr)
         IN  <<Add(f[1], rest[1]), Add(f[2], rest[2])>>

\* The endpoint of conn opposite to node i: conn.to when conn.from is i,
\* conn.from when conn.to is i, null otherwise
Other(conn, i) ==
    IF conn.from = i THEN conn.to
    ELSE IF conn.to = i THEN conn.from
    ELSE Null

\* The sign applied to the spring force on node i
Sign(conn, i) ==
    IF conn.from = i THEN 1
    ELSE IF conn.to = i THEN -1
    ELSE 1

\* if (other): null and undefined are falsy, a node is truthy
Truthy(ref) == ref # Null /\ ref # Undefined

\* 2. The spring force of conn on node i: <<fx, fy>>
Attraction(ns, conn, i, pr) ==
    LET other == Other(conn, i)
        sign == Sign(conn, i)
    IN  IF Truthy(other)
        THEN LET dx == Sub(ns[other].x, ns[i].x)
                 dy == Sub(ns[other].y, ns[i].y)
                 dist == Sqrt(SumSq(dx, dy))
                 force == MulQ(Sub(dist, Px(optimalDist)), pr.attractionStrength)
                 ux == UnitTimes(dx, dist, force)
                 uy == UnitTimes(dy, dist, force)
             IN  << IF IsNaN(ux) THEN NaN ELSE ux * sign,
                    IF IsNaN(uy) THEN NaN ELSE uy * sign >>
        ELSE <<0, 0>>

\* this.connections.forEach, from connection k on
RECURSIVE AttractionFrom(_, _, _, _, _)
AttractionFrom(ns, conns, i, k, pr) ==
    IF k \notin DOMAIN conns THEN <<0, 0>>
    ELSE LET rest == AttractionFrom(ns, conns, i, k + 1, pr)
             f == Attraction(ns, conns[k], i, pr)
         IN  <<Add(f[1], rest[1]), Add(f[2], rest[2])>>

\* The center force with dcx = nodeA.x - this.centerX: away from the center
CenterPullOutward(c, pos, pr) == MulQ(Sub(pos, c), pr.centerAttraction)

\* 3. Attraction to the center along one axis
CenterPull(c, pos, pr) == MulQ(Sub(c, pos), pr.centerAttraction)

\* The accumulated force <<fx, fy>> on node i
Force(ns, conns, i, cx, cy, pr) ==
    LET rep == RepulsionFrom(ns, i, 0, pr)
        att == AttractionFrom(ns, conns, i, 1, pr)
    IN  << Add(Add(rep[1], att[1]), CenterPull(cx, ns[i].x, pr)),
           Add(Add(rep[2], att[2]), CenterPull(cy, ns[i].y, pr)) >>

\* Soft boundary on one axis: <<position, velocity>> after the clamp
Boundary(pos, vel, margin, dimension) ==
    IF Lt(pos, margin) THEN <<margin, MulQ(vel, bounce)>>
    ELSE IF Lt(dimension - margin, pos)
         THEN <<dimension - margin, MulQ(vel, bounce)>>
    ELSE <<pos, vel>>

\* Velocity and position update of node i, then the boundary
Integrate(node, f, w, h, pr) ==
    LET vx == MulQ(Add(node.vx, f[1]), pr.friction)
        vy == MulQ(Add(node.vy, f[2]), pr.friction)
        margin == node.radius + Px(boundaryMargin)
        bx == Boundary(Add(node.x, vx), vx, margin, w)
        by == Boundary(Add(node.y, vy), vy, margin, h)
    IN  [node EXCEPT !.x = bx[1], !.vx = bx[2], !.y = by[1], !.vy = by[2]]

\* StepNode without the test that skips the dragged node
StepNodeNoSkip(ns, conns, i, dragged, w, h, cx, cy, pr) ==
    [ns EXCEPT
       ![i] = Integrate(ns[i], Force(ns, conns, i, cx, cy, pr), w, h, pr)]

\* One iteration of the outer loop: node i is skipped when dragged
StepNode(ns, conns, i, dragged, w, h, cx, cy, pr) ==
    IF i = dragged THEN ns
    ELSE [ns EXCEPT
            ![i] = Integrate(ns[i], Force(ns, conns, i, cx, cy, pr), w, h, pr)]

\* The outer loop from index i on: each node is updated in place, so node i
\* sees the new positions of the nodes before it
RECURSIVE UpdateFrom(_, _, _, _, _, _, _, _, _)
UpdateFrom(ns, conns, i, dragged, w, h, cx, cy, pr) ==
    IF i \notin DOMAIN ns THEN ns
    ELSE UpdateFrom(StepNode(ns, conns, i, dragged, w, h, cx, cy, pr),
                    conns, i + 1, dragged, w, h, cx, cy, pr)

updatePhysics(ns, conns, dragged, w, h, cx, cy, pr) ==
    UpdateFrom(ns, conns, 0, dragged, w, h, cx, cy, pr)

---------------------------------------------------------------------------
(* setupCanvas, popup, handleHover *)

\* this.width, this.height, this.centerX, this.centerY for a container of
\* the given size
setupCanvas(size) ==
    LET w == Px(size[1])
        h == Px(size[2])
    IN  [width |-> w, height |-> h,
         centerX |-> MulQ(w, <<1, 2>>), centerY |-> MulQ(h, <<1, 2>>)]

\* The popup after showPopup(node, x, y): filled with the node's content,
\* placed for the point (x, y), made visible
showPopup(node, x, y) == [hidden |-> FALSE, node |-> node, x |-> x, y |-> y]

\* hidePopup() without the class change: the popup stays as it is
hidePopupStaysVisible(pp) == pp

\* The popup after hidePopup(): content and place are kept
hidePopup(pp) == [pp EXCEPT !.hidden = TRUE]

\* handleHover without the test node !== this.hoveredNode
handleHoverAlways(x, y) ==
    LET node == getNodeAtPosition(nodes, x, y)
    IN  IF node # Null
        THEN <<node, showPopup(node, x, y), "grab">>
        ELSE <<node, hidePopup(popup), "default">>

\* handleHover(x, y): the new <<hoveredNode, popup, cursor>>
handleHover(x, y) ==
    LET node == getNodeAtPosition(nodes, x, y)
    IN  IF node # hoveredNode
        THEN IF node # Null
             THEN <<node, showPopup(node, x, y), "grab">>
             ELSE <<node, hidePopup(popup), "default">>
        ELSE <<hoveredNode, popup, cursor>>

---------------------------------------------------------------------------
(* Initial state: after the constructor (init) has run *)

InitWith(cmap) ==
    \E jitter \in JitterPatterns, hidden \in BOOLEAN :
        LET c == setupCanvas(InitialSize)
        IN  /\ width = c.width
            /\ height = c.height
            /\ centerX = c.centerX
            /\ centerY = c.centerY
            /\ nodes = [i \in NodeIds |->
                          createNode(i, c.width, c.height, c.centerX, c.centerY,
                                     jitter)]
            /\ connections = createConnections(nodes, cmap)
            /\ draggedNode = Null
            /\ hoveredNode = Null
            /\ mouseX = 0
            /\ mouseY = 0
            /\ mouseMoveTimeout = Undefined
            /\ resizeTimeout = Undefined
            /\ timers = {}
            /\ cursor = ""
            /\ popup = [hidden |-> hidden, node |-> Null, x |-> 0, y |-> 0]
            /\ animationId = 1
            /\ scheduled = {1}
            /\ nextHandle = 2
            /\ physics = DefaultPhysics
            /\ pointerInside = FALSE
            /\ events = 0

Init == InitWith(connectionMap)

\* A connection list that names a skill the catalog does not hold
BadConnectionMap == Append(connectionMap, <<"Python", "Machine Learning">>)

InitBadConfig == InitWith(BadConnectionMap)

---------------------------------------------------------------------------
(* Timers (setTimeout / clearTimeout) *)

\* The delay of the hover timer and of the resize timer, in milliseconds
hoverDelay == 16
resizeDelay == 250

\* clearTimeout(id): the pending timeouts without the one whose id is id;
\* no effect when id is undefined or names no pending timeout
clearTimeout(ts, id) == {t \in ts : t.id # id}

\* The id a setTimeout call returns: one that names no pending timeout and
\* is not among the ids `held` elsewhere by the program (the least such)
TimerId(ts, held) ==
    CHOOSE n \in 1..(Cardinality(ts) + Cardinality(held) + 1) :
        /\ n \notin {t.id : t \in ts} \cup held
        /\ \A m \in 1..(n - 1) : m \in {t.id : t \in ts} \cup held

\* setTimeout(fn, delay) returning id: one more pending timeout
setTimeout(ts, id, fn, delay) ==
    ts \cup {[id |-> id, fn |-> fn, delay |-> delay]}

---------------------------------------------------------------------------
(* Event handlers *)

\* DragTo without the two assignments that zero the velocity
DragToKeepsVelocity(node, x, y) == [node EXCEPT !.x = x, !.y = y]

\* The place of the node dragged by a move to (x, y)
DragTo(node, x, y) == [node EXCEPT !.x = x, !.y = y, !.vx = 0, !.vy = 0]

\* 'mousemove' without the clearTimeout call
mousemoveNoClear(clientX, clientY) ==
    /\ mouseX' = Px(clientX - RectLeft)
    /\ mouseY' = Px(clientY - RectTop)
    /\ IF draggedNode # Null
       THEN /\ nodes' = [nodes EXCEPT
                           ![draggedNode] = DragTo(@, mouseX', mouseY')]
            /\ UNCHANGED <<mouseMoveTimeout, timers>>
       ELSE /\ LET id == TimerId(timers, {resizeTimeout})
                IN  /\ mouseMoveTimeout' = id
                    /\ timers' = setTimeout(timers, id, "handleHover",
                                            hoverDelay)
            /\ UNCHANGED nodes
    /\ UNCHANGED <<connections, draggedNode, hoveredNode, resizeTimeout, width,
                   height, centerX, centerY, cursor, popup, animationId,
                   scheduled, nextHandle, physics>>
    /\ pointerInside' = TRUE

\* 'mousemove' with the event's clientX, clientY
mousemove(clientX, clientY) ==
    /\ mouseX' = Px(clientX - RectLeft)
    /\ mouseY' = Px(clientY - RectTop)
    /\ IF draggedNode # Null
       THEN /\ nodes' = [nodes EXCEPT
                           ![draggedNode] = DragTo(@, mouseX', mouseY')]
            /\ UNCHANGED <<mouseMoveTimeout, timers>>
       ELSE /\ LET cleared == clearTimeout(timers, mouseMoveTimeout)
                    id == TimerId(cleared, {resizeTimeout})
                IN  /\ mouseMoveTimeout' = id
                    /\ timers' = setTimeout(cleared, id, "handleHover",
                                            hoverDelay)
            /\ UNCHANGED nodes
    /\ UNCHANGED <<connections, draggedNode, hoveredNode, resizeTimeout, width,
                   height, centerX, centerY, cursor, popup, animationId,
                   scheduled, nextHandle, physics>>
    /\ pointerInside' = TRUE

\* The hover timer t set by 'mousemove' fires
hoverTimeout(t) ==
    /\ t \in timers
    /\ t.fn = "handleHover"
    /\ timers' = timers \ {t}
    /\ LET r == handleHover(mouseX, mouseY)
       IN  /\ hoveredNode' = r[1]
           /\ popup' = r[2]
           /\ cursor' = r[3]
    /\ UNCHANGED <<nodes, connections, draggedNode, mouseX, mouseY,
                   mouseMoveTimeout, resizeTimeout, width, height, centerX,
                   centerY, animationId, scheduled, nextHandle, physics,
                   pointerInside>>

\* 'mousedown' with the event's clientX, clientY
mousedown(clientX, clientY) ==
    /\ mouseX' = Px(clientX - RectLeft)
    /\ mouseY' = Px(clientY - RectTop)
    /\ draggedNode' = getNodeAtPosition(nodes, mouseX', mouseY')
    /\ cursor' = IF draggedNode' # Null THEN "grabbing" ELSE cursor
    /\ UNCHANGED <<nodes, connections, hoveredNode, mouseMoveTimeout,
                   resizeTimeout, timers, width, height, centerX, centerY, popup,
                   animationId, scheduled, nextHandle, physics>>
    /\ pointerInside' = TRUE

\* 'mouseup' without the release of the dragged node
mouseupKeepsDrag ==
    /\ UNCHANGED <<nodes, connections, draggedNode, hoveredNode, mouseX, mouseY,
                   mouseMoveTimeout, resizeTimeout, timers, width, height,
                   centerX, centerY, cursor, popup, animationId, scheduled,
                   nextHandle, physics>>
    /\ pointerInside' = TRUE

\* 'mouseup'
mouseup ==
    /\ IF draggedNode # Null
       THEN /\ draggedNode' = Null
            /\ cursor' = "grab"
       ELSE UNCHANGED <<draggedNode, cursor>>
    /\ UNCHANGED <<nodes, connections, hoveredNode, mouseX, mouseY,
                   mouseMoveTimeout, resizeTimeout, timers, width, height,
                   centerX, centerY, popup, animationId, scheduled, nextHandle, physics>>
    /\ pointerInside' = TRUE

\* 'mouseleave' without the reset of hoveredNode and the hidePopup call
mouseleaveKeepsHover ==
    /\ draggedNode' = Null
    /\ cursor' = "default"
    /\ UNCHANGED <<nodes, connections, hoveredNode, mouseX, mouseY,
                   mouseMoveTimeout, resizeTimeout, timers, width, height,
                   centerX, centerY, popup, animationId, scheduled, nextHandle,
                   physics>>
    /\ pointerInside' = FALSE

\* 'mouseleave'
mouseleave ==
    /\ draggedNode' = Null
    /\ hoveredNode' = Null
    /\ popup' = hidePopup(popup)
    /\ cursor' = "default"
    /\ UNCHANGED <<nodes, connections, mouseX, mouseY, mouseMoveTimeout,
                   resizeTimeout, timers, width, height, centerX, centerY, animationId,
                   scheduled, nextHandle, physics>>
    /\ pointerInside' = FALSE

\* window 'resize': the debounce timer is (re)armed
resize ==
    /\ LET cleared == clearTimeout(timers, resizeTimeout)
           id == TimerId(cleared, {mouseMoveTimeout})
       IN  /\ resizeTimeout' = id
           /\ timers' = setTimeout(cleared, id, "resize", resizeDelay)
    /\ UNCHANGED <<nodes, connections, draggedNode, hoveredNode, mouseX, mouseY,
                   mouseMoveTimeout, width, height, centerX, centerY, cursor,
                   popup, animationId, scheduled, nextHandle, physics,
                   pointerInside>>

\* Reposition keeping the node's offset from the center as it was before
\* setupCanvas ran, so that the node follows the center
RepositionFollowsCenter(node, cx, cy) ==
    [node EXCEPT !.x = Add(cx, Sub(node.x, centerX)),
                 !.y = Add(cy, Sub(node.y, centerY))]

\* node.x = this.centerX + (node.x - this.centerX), and the same for y
Reposition(node, cx, cy) ==
    [node EXCEPT !.x = Add(cx, Sub(node.x, cx)), !.y = Add(cy, Sub(node.y, cy))]

\* The resize timer t fires while the container has the given size:
\* setupCanvas, then every node is repositioned
resizeTimeoutFiredAt(t, size) ==
    /\ t \in timers
    /\ t.fn = "resize"
    /\ timers' = timers \ {t}
    /\ LET c == setupCanvas(size)
       IN  /\ width' = c.width
           /\ height' = c.height
           /\ centerX' = c.centerX
           /\ centerY' = c.centerY
           /\ nodes' = [i \in DOMAIN nodes |->
                          Reposition(nodes[i], c.centerX, c.centerY)]
    /\ UNCHANGED <<connections, draggedNode, hoveredNode, mouseX, mouseY,
                   mouseMoveTimeout, resizeTimeout, cursor, popup, animationId,
                   scheduled, nextHandle, physics,
                   pointerInside>>

\* The resize timer t fires: the container has one of ContainerSizes
resizeTimeoutFired(t) ==
    \E size \in ContainerSizes : resizeTimeoutFiredAt(t, size)

---------------------------------------------------------------------------
(* Animation loop *)

\* render() reads conn.from.x and conn.to.x of every connection: a TypeError
\* is thrown when an endpoint is undefined
RenderThrows(conns) ==
    \E k \in DOMAIN conns : ~Truthy(conns[k].from) \/ ~Truthy(conns[k].to)

\* The frame callback with handle h runs animate: updatePhysics, render, and
\* the request of the next frame unless render threw
animate(h) ==
    /\ h \in scheduled
    /\ UNCHANGED <<connections, draggedNode, hoveredNode, mouseX, mouseY,
                   mouseMoveTimeout, resizeTimeout, timers, width, height,
                   centerX, centerY, cursor, popup, physics,
                   pointerInside>>
    /\ IF RenderThrows(connections)
       THEN /\ scheduled' = scheduled \ {h}
            /\ UNCHANGED <<animationId, nextHandle>>
       ELSE /\ animationId' = nextHandle
            /\ scheduled' = (scheduled \ {h}) \cup {nextHandle}
            /\ nextHandle' = nextHandle + 1
    /\ nodes' = updatePhysics(nodes, connections, draggedNode, width, height,
                              centerX, centerY, physics)

\* cancelAnimationFrame(this.animationId) when this.animationId is truthy
Cancel(sched, id) == IF id # Null THEN sched \ {id} ELSE sched

\* startAnimation without the cancelAnimationFrame call
startAnimationNoCancel ==
    /\ animationId' = nextHandle
    /\ scheduled' = scheduled \cup {nextHandle}
    /\ nextHandle' = nextHandle + 1
    /\ UNCHANGED <<nodes, connections, draggedNode, hoveredNode, mouseX, mouseY,
                   mouseMoveTimeout, resizeTimeout, timers, width, height,
                   centerX, centerY, cursor, popup, physics,
                   pointerInside>>

\* startAnimation()
startAnimation ==
    /\ animationId' = nextHandle
    /\ scheduled' = Cancel(scheduled, animationId) \cup {nextHandle}
    /\ nextHandle' = nextHandle + 1
    /\ UNCHANGED <<nodes, connections, draggedNode, hoveredNode, mouseX, mouseY,
                   mouseMoveTimeout, resizeTimeout, timers, width, height,
                   centerX, centerY, cursor, popup, physics,
                   pointerInside>>

\* destroy without the cancelAnimationFrame call
destroyNoCancel ==
    UNCHANGED <<nodes, connections, draggedNode, hoveredNode, mouseX, mouseY,
                mouseMoveTimeout, resizeTimeout, timers, width, height,
                centerX, centerY, cursor, popup, animationId, scheduled,
                nextHandle, physics, pointerInside>>

\* destroy()
destroy ==
    /\ scheduled' = Cancel(scheduled, animationId)
    /\ UNCHANGED <<nodes, connections, draggedNode, hoveredNode, mouseX, mouseY,
                   mouseMoveTimeout, resizeTimeout, timers, width, height,
                   centerX, centerY, cursor, popup, animationId, nextHandle,
                   physics, pointerInside>>

---------------------------------------------------------------------------
(* Specification *)

\* One more handler or callback run, within the exploration bound
Count == events < MaxEvents /\ events' = events + 1

MouseMove == Count /\ \E pt \in ClientPoints : mousemove(pt[1], pt[2])
HoverTimeout == Count /\ \E t \in timers : hoverTimeout(t)
MouseDown == Count /\ \E pt \in ClientPoints : mousedown(pt[1], pt[2])
MouseUp == Count /\ mouseup
MouseLeave == Count /\ mouseleave
Resize == Count /\ resize
ResizeTimeoutFired == Count /\ \E t \in timers : resizeTimeoutFired(t)
Animate == Count /\ \E h \in scheduled : animate(h)
StartAnimation == Count /\ startAnimation
Destroy == Count /\ destroy

Next ==
    \/ MouseMove
    \/ HoverTimeout
    \/ MouseDown
    \/ MouseUp
    \/ MouseLeave
    \/ Resize
    \/ ResizeTimeoutFired
    \/ Animate
    \/ StartAnimation
    \/ Destroy

Spec == Init /\ [][Next]_vars

\* The same program built on BadConnectionMap
SpecBadConfig == InitBadConfig /\ [][Next]_vars

\* The sizes of a container that may have collapsed: hidden (0 x 0), zero
\* width, zero height, or shown at its initial size
ZeroSizes == { <<0, 0>>, <<0, 240>>, <<360, 0>>, InitialSize }

\* The resize timer fires while the container has one of ZeroSizes
ResizeTimeoutFiredZeroSize ==
    Count /\ \E t \in timers, size \in ZeroSizes : resizeTimeoutFiredAt(t, size)

NextZeroSize ==
    \/ Resize
    \/ ResizeTimeoutFiredZeroSize
    \/ Animate

\* The program with a container that collapses and comes back: resizes and
\* frames only
SpecZeroSize == Init /\ [][NextZeroSize]_vars

\* One more frame of the layout left to itself
FrameSettle ==
    /\ events < SettleFrames
    /\ events' = events + 1
    /\ \E h \in scheduled : animate(h)

NextSettle == FrameSettle

\* The program after construction with no pointer event and no resize:
\* only frames run
SpecSettle == Init /\ [][NextSettle]_vars

---------------------------------------------------------------------------
(* Layouts for the force laws: the same object with this.nodes,
   this.connections and the physics parameters replaced, every node at
   rest, and only frames running *)

\* A node at rest at the canvas point pt (pixels)
nodeAt(index, pt) ==
    [id |-> index, x |-> Px(pt[1]), y |-> Px(pt[2]), vx |-> 0, vy |-> 0,
     radius |-> Px(nodeRadius), name |-> skills[index + 1]]

\* The state with nodes at rest at `places` (a sequence of points), the
\* connections conns and the physics parameters pr, on the initial canvas
InitLayout(places, conns, pr) ==
    LET c == setupCanvas(InitialSize)
    IN  /\ width = c.width
        /\ height = c.height
        /\ centerX = c.centerX
        /\ centerY = c.centerY
        /\ nodes = [i \in 0..(Len(places) - 1) |-> nodeAt(i, places[i + 1])]
        /\ connections = conns
        /\ draggedNode = Null
        /\ hoveredNode = Null
        /\ mouseX = 0
        /\ mouseY = 0
        /\ mouseMoveTimeout = Undefined
        /\ resizeTimeout = Undefined
        /\ timers = {}
        /\ cursor = ""
        /\ popup = [hidden |-> TRUE, node |-> Null, x |-> 0, y |-> 0]
        /\ animationId = 1
        /\ scheduled = {1}
        /\ nextHandle = 2
        /\ physics = pr
        /\ pointerInside = FALSE
        /\ events = 0

\* One more frame, within the exploration bound
Frame ==
    /\ events < MaxFrames
    /\ events' = events + 1
    /\ \E h \in scheduled : animate(h)

NextFrames == Frame

\* Two nodes joined by one connection, far apart, default parameters
SpringPlaces ==
    { << <<40, 120>>, <<320, 120>> >>,
      << <<320, 120>>, <<40, 120>> >>,
      << <<40, 40>>, <<320, 200>> >>,
      << <<50, 200>>, <<310, 50>> >> }

InitSpring ==
    \E places \in SpringPlaces :
        InitLayout(places, <<[from |-> 0, to |-> 1]>>, DefaultPhysics)

SpecSpring == InitSpring /\ [][NextFrames]_vars

\* No connections and no repulsion: only the pull to the center (180, 120).
\* The last layout has its two nodes at the same point.
CenterPlaces ==
    { << <<40, 40>>, <<320, 200>> >>,
      << <<100, 200>>, <<180, 60>> >>,
      << <<300, 120>>, <<170, 130>> >>,
      << <<60, 60>>, <<60, 60>> >> }

\* centerAttraction: the default 0.002, 0.005, and 0.05 and 0.5
CenterAttractions == { <<2, 1000>>, <<5, 1000>>, <<5, 100>>, <<1, 2>> }

InitCenter ==
    \E places \in CenterPlaces, ca \in CenterAttractions :
        InitLayout(places, <<>>,
                   [DefaultPhysics EXCEPT !.repulsionStrength = 0,
                                          !.centerAttraction = ca])

SpecCenter == InitCenter /\ [][NextFrames]_vars

\* Only repulsion: two nodes close together, two farther apart, two near
\* the left and right boundaries, three in a row, and two at the same point
RepelPlaces ==
    { << <<170, 120>>, <<190, 120>> >>,
      << <<100, 100>>, <<250, 150>> >>,
      << <<60, 120>>, <<300, 120>> >>,
      << <<100, 120>>, <<200, 120>>, <<210, 120>> >>,
      << <<150, 100>>, <<150, 100>> >> }

InitRepel ==
    \E places \in RepelPlaces :
        InitLayout(places, <<>>,
                   [DefaultPhysics EXCEPT !.attractionStrength = <<0, 1>>,
                                          !.centerAttraction = <<0, 1>>])

SpecRepel == InitRepel /\ [][NextFrames]_vars

---------------------------------------------------------------------------
(* Claims *)

\* The step is the frame callback (animate) of some scheduled handle
AnimateStep == \E h \in scheduled : animate(h)

\* The step is a 'mousemove' at the client point pt
MouseMoveAt(pt) == mousemove(pt[1], pt[2])

\* C1: every 'mousemove' delivered while a node is dragged leaves that node
\* exactly at the event's pointer coordinates relative to the canvas, with
\* velocity (0, 0), whatever its position and velocity were before.
C1_DragMoveSetsPosition ==
    [][\A pt \in ClientPoints :
          (draggedNode # Null /\ MouseMoveAt(pt)) =>
              /\ nodes'[draggedNode].x = Px(pt[1] - RectLeft)
              /\ nodes'[draggedNode].y = Px(pt[2] - RectTop)
              /\ nodes'[draggedNode].vx = 0
              /\ nodes'[draggedNode].vy = 0]_vars

\* C1 witness: node 0, which starts on the right of the circle and had gained
\* velocity in a frame, has been dragged to the pointer at (120, 120).
C1_Witness ==
    /\ draggedNode = 0
    /\ mouseX = Px(120) /\ mouseY = Px(120)
    /\ nodes[0].x = mouseX /\ nodes[0].y = mouseY
    /\ nodes[0].vx = 0 /\ nodes[0].vy = 0
    /\ \E i \in DOMAIN nodes : nodes[i].vx # 0 /\ ~IsNaN(nodes[i].vx)

\* fx * dx + fy * dy for the spring force f of connection conn on node a and
\* the vector (dx, dy) from a to the other endpoint b
SpringDot(conn, a, b) ==
    LET f == Attraction(nodes, conn, a, physics)
    IN  f[1] * (nodes[b].x - nodes[a].x) + f[2] * (nodes[b].y - nodes[a].y)

\* The distance between nodes a and b
Distance(a, b) ==
    Sqrt(SumSq(Sub(nodes[b].x, nodes[a].x), Sub(nodes[b].y, nodes[a].y)))

\* Node a has finite coordinates and velocity
Finite(a) ==
    /\ ~IsNaN(nodes[a].x) /\ ~IsNaN(nodes[a].y)
    /\ ~IsNaN(nodes[a].vx) /\ ~IsNaN(nodes[a].vy)

\* The spring force of conn on endpoint a points toward the other endpoint b
\* beyond the target length and away from it below the target length
SpringTowardTarget(conn, a, b) ==
    /\ Distance(a, b) > Px(optimalDist) => SpringDot(conn, a, b) >= 0
    /\ Distance(a, b) < Px(optimalDist) => SpringDot(conn, a, b) <= 0

\* C2 (as claimed): for every connection and each of its endpoints that is
\* not dragged, 'from' or 'to', the spring force updatePhysics adds to that
\* endpoint points toward the other endpoint when they are farther apart
\* than 150 and away from it when they are closer than 150.
C2_SpringTowardTargetBothEnds ==
    \A k \in DOMAIN connections :
        LET conn == connections[k]
        IN  (Truthy(conn.from) /\ Truthy(conn.to)
               /\ Finite(conn.from) /\ Finite(conn.to)) =>
              /\ conn.from # draggedNode =>
                    SpringTowardTarget(conn, conn.from, conn.to)
              /\ conn.to # draggedNode =>
                    SpringTowardTarget(conn, conn.to, conn.from)

\* C3 (as claimed): every node's x, y, vx and vy are finite numbers in every
\* reachable state, also after an updatePhysics step on two nodes at the
\* same point.
C3_PositionsStayFinite == \A i \in DOMAIN nodes : Finite(i)

\* C4 (as claimed): with a connection naming a skill that is not in the
\* catalog, no state is reached in which this.connections holds an edge
\* whose 'from' or 'to' endpoint is missing.
C4_NoMissingEndpoint ==
    \A k \in DOMAIN connections :
        Truthy(connections[k].from) /\ Truthy(connections[k].to)

\* C5 (as claimed): handleHover never runs while a node is dragged: no step
\* taken with draggedNode non-null is the firing of the hover timer.
C5_NoHoverWhileDragging ==
    [][draggedNode # Null => ~\E t \in timers : hoverTimeout(t)]_vars

\* The center of node i is at distance strictly less than its radius from
\* the point q (compared on the squares)
Contains(i, q) ==
    /\ ~IsNaN(nodes[i].x) /\ ~IsNaN(nodes[i].y)
    /\ (q[1] - nodes[i].x) * (q[1] - nodes[i].x)
         + (q[2] - nodes[i].y) * (q[2] - nodes[i].y)
       < nodes[i].radius * nodes[i].radius

\* The canvas point of a pointer event at the client point pt
CanvasPoint(pt) == <<Px(pt[1] - RectLeft), Px(pt[2] - RectTop)>>

\* Points probed: where pointer events occur, and two points beside the
\* initial place of node 0, at exactly its radius and one unit inside it
C6_Probes ==
    { CanvasPoint(pt) : pt \in ClientPoints }
        \cup { <<Px(270), Px(120)>>, <<Px(270) - 1, Px(120)>> }

\* C6: getNodeAtPosition(x, y) returns the node with the highest index among
\* those whose center is at distance strictly less than its radius from
\* (x, y), and null when there is none.
C6_HitTestTopmost ==
    \A q \in C6_Probes :
        LET r == getNodeAtPosition(nodes, q[1], q[2])
            inside == {i \in DOMAIN nodes : Contains(i, q)}
        IN  IF inside = {} THEN r = Null
            ELSE r \in inside /\ \A j \in inside : j <= r

\* C6 witness: a press at a point inside both node 0 and node 1 has picked
\* node 1, the one inserted later.
C6_Witness ==
    /\ draggedNode = 1
    /\ Contains(0, <<mouseX, mouseY>>)
    /\ Contains(1, <<mouseX, mouseY>>)

\* C7: a frame (updatePhysics) leaves x, y, vx and vy of the dragged node
\* unchanged, and a drag-move puts it at the pointer: between drag-moves
\* the frames never move the dragged node off the latest pointer position.
C7_DraggedNodeUntouched ==
    [][draggedNode # Null =>
          /\ AnimateStep => nodes'[draggedNode] = nodes[draggedNode]
          /\ \A pt \in ClientPoints :
                MouseMoveAt(pt) =>
                    /\ nodes'[draggedNode].x = CanvasPoint(pt)[1]
                    /\ nodes'[draggedNode].y = CanvasPoint(pt)[2]]_vars

\* C7 witness: node 0 is dragged and sits, finite, on the place of node 4,
\* whose position a frame has turned into NaN: that frame ran while node 0
\* was dragged there (not dragged, node 0 would be NaN as well).
C7_Witness ==
    /\ draggedNode = 0
    /\ nodes[0].x = Px(120) /\ nodes[0].y = Px(120)
    /\ nodes[0].vx = 0 /\ nodes[0].vy = 0
    /\ IsNaN(nodes[4].x)

\* C8 (as claimed): in every reachable state with a dragged node, that
\* node's velocity is (0, 0).
C8_DraggedVelocityZero ==
    draggedNode # Null =>
        nodes[draggedNode].vx = 0 /\ nodes[draggedNode].vy = 0

\* lo <= v <= hi for a finite v
InRange(v, lo, hi) == ~IsNaN(v) /\ lo <= v /\ v <= hi

\* C9 (as claimed): after every frame, every node that was not dragged has
\* x in [radius + 10, width - (radius + 10)] and y in
\* [radius + 10, height - (radius + 10)].
C9_ClampedAfterStep ==
    [][AnimateStep =>
          \A i \in DOMAIN nodes :
              i # draggedNode =>
                  LET margin == nodes[i].radius + Px(boundaryMargin)
                  IN  /\ InRange(nodes'[i].x, margin, width - margin)
                      /\ InRange(nodes'[i].y, margin, height - margin)]_vars

\* The step is a 'mousedown' at the client point pt
MouseDownAt(pt) == mousedown(pt[1], pt[2])

\* C10: draggedNode goes from null to a node n only in a 'mousedown' whose
\* press point lies inside n, n being the topmost such node (a press over
\* empty space leaves it null);
\* after every 'mouseup' and 'mouseleave' it is null; and no step other
\* than these three handlers changes it.
C10_DragStateMachine ==
    [][/\ (draggedNode = Null /\ draggedNode' # Null) =>
             \E pt \in ClientPoints :
                 /\ MouseDownAt(pt)
                 /\ Contains(draggedNode', CanvasPoint(pt))
                 /\ \A j \in DOMAIN nodes :
                       Contains(j, CanvasPoint(pt)) => j <= draggedNode'
       /\ \A pt \in ClientPoints :
             (MouseDownAt(pt)
                 /\ \A i \in DOMAIN nodes : ~Contains(i, CanvasPoint(pt)))
               => draggedNode' = Null
       /\ mouseup => draggedNode' = Null
       /\ mouseleave => draggedNode' = Null
       /\ draggedNode' # draggedNode =>
             \/ \E pt \in ClientPoints : MouseDownAt(pt)
             \/ mouseup
             \/ mouseleave]_vars

\* C10 witness: a drag was started by a press and ended by a release.
C10_Witness == draggedNode = Null /\ cursor = "grab" /\ hoveredNode = Null

\* C11: immediately after the 'mouseleave' handler has run, from whatever
\* state it started in, draggedNode is null, hoveredNode is null and the
\* popup is hidden.
C11_LeaveClearsPointerState ==
    [][mouseleave =>
          /\ draggedNode' = Null
          /\ hoveredNode' = Null
          /\ popup'.hidden]_vars

\* C11 witness: the pointer has left while it was over the node whose popup
\* was showing: the popup still holds that node's content and the last
\* pointer position is still inside that node, yet nothing is hovered or
\* dragged and the popup is hidden.
C11_Witness ==
    /\ popup.node # Null
    /\ popup.hidden
    /\ getNodeAtPosition(nodes, mouseX, mouseY) = popup.node
    /\ <<popup.x, popup.y>> = <<mouseX, mouseY>>
    /\ hoveredNode = Null
    /\ draggedNode = Null
    /\ cursor = "default"

\* The step is the firing of a pending hover timer
HoverTimeoutStep == \E t \in timers : hoverTimeout(t)

\* The pending timeouts whose callback is fn
Pending(fn) == {t \in timers : t.fn = fn}

\* C12: hover debounce.  At most one hover timer is pending at any time;
\* a 'mousemove' with no node dragged cancels the pending hover timer and
\* leaves exactly one, its own, so a burst of moves with no firing between
\* them ends with one pending timer; the firing of that timer runs
\* handleHover once, on the coordinates of the most recent move (mouseX,
\* mouseY, which a move sets to its own point), and leaves none pending.
C12_HoverDebounce ==
    [][/\ Cardinality(Pending("handleHover")') <= 1
       /\ \A t \in Pending("handleHover")' : t.delay = hoverDelay
       /\ \A pt \in ClientPoints :
             (draggedNode = Null /\ MouseMoveAt(pt)) =>
                 /\ Cardinality(Pending("handleHover")') = 1
                 /\ \A t \in Pending("handleHover")' : t.id = mouseMoveTimeout'
                 /\ <<mouseX', mouseY'>> = CanvasPoint(pt)
                 /\ UNCHANGED <<hoveredNode, popup, cursor>>
       /\ HoverTimeoutStep =>
             /\ Pending("handleHover")' = {}
             /\ <<hoveredNode', popup', cursor'>> = handleHover(mouseX, mouseY)
             /\ UNCHANGED <<mouseX, mouseY>>]_vars

\* C12 witness: after a burst of two moves to different points with no
\* firing between them, the one hover timer has fired and handleHover has
\* shown the popup at the point of the second move.
C12_Witness ==
    /\ events = 3
    /\ Pending("handleHover") = {}
    /\ mouseMoveTimeout # Undefined
    /\ hoveredNode # Null
    /\ ~popup.hidden
    /\ <<popup.x, popup.y>> = <<mouseX, mouseY>>
    /\ draggedNode = Null

\* C13: handleHover(x, y) changes hoveredNode and shows, hides or places
\* the popup only when the hit-test result differs from hoveredNode: it
\* then makes the result the hovered node, and shows the popup for it at
\* (x, y) or hides the popup when the result is null.  When the result is
\* the node already hovered, or null with nothing hovered, hoveredNode,
\* the popup's visibility and place, and the cursor are left unchanged.
C13_HoverOnlyOnChange ==
    [][HoverTimeoutStep =>
          LET hit == getNodeAtPosition(nodes, mouseX, mouseY)
          IN  /\ hit = hoveredNode => UNCHANGED <<hoveredNode, popup, cursor>>
              /\ hit # hoveredNode =>
                    /\ hoveredNode' = hit
                    /\ hit # Null =>
                          /\ ~popup'.hidden
                          /\ popup'.node = hit
                          /\ <<popup'.x, popup'.y>> = <<mouseX, mouseY>>
                    /\ hit = Null =>
                          /\ popup'.hidden
                          /\ <<popup'.x, popup'.y>> = <<popup.x, popup.y>>]_vars

\* C13 witness: the pointer moved inside the node already hovered and the
\* hover timer of that move has fired: the popup is still at the point
\* where the hover began, not at the pointer.
C13_Witness ==
    /\ hoveredNode # Null
    /\ getNodeAtPosition(nodes, mouseX, mouseY) = hoveredNode
    /\ popup.node = hoveredNode
    /\ ~popup.hidden
    /\ <<popup.x, popup.y>> # <<mouseX, mouseY>>
    /\ Pending("handleHover") = {}
    /\ draggedNode = Null

\* C14: after any sequence of startAnimation calls, destroy calls and
\* frame-callback runs, at most one frame callback is scheduled, so
\* updatePhysics runs at most once per display frame however often
\* startAnimation is called.
C14_AtMostOneFrameScheduled == Cardinality(scheduled) <= 1

\* C14 witness: startAnimation has been called twice with no frame run in
\* between (no node has gained velocity) and one callback is scheduled,
\* the one requested last.
C14_Witness ==
    /\ animationId = 3
    /\ nextHandle = 4
    /\ scheduled = {3}
    /\ \A i \in DOMAIN nodes : nodes[i].vx = 0 /\ nodes[i].vy = 0

\* C15: destroy() leaves no frame callback scheduled, so no frame
\* (updatePhysics, render) runs until startAnimation is called: only
\* startAnimation schedules a callback when none is scheduled.  destroy
\* leaves nodes, connections, draggedNode and hoveredNode unchanged, and so
\* does the startAnimation that schedules the next frame: stepping resumes
\* from the state the program is in at that call.
C15_DestroyStopsLoopKeepsState ==
    [][/\ destroy =>
             /\ scheduled' = {}
             /\ UNCHANGED <<nodes, connections, draggedNode, hoveredNode>>
       /\ scheduled = {} => ~AnimateStep
       /\ (scheduled = {} /\ scheduled' # {}) => startAnimation
       /\ startAnimation =>
             /\ scheduled' = {animationId'}
             /\ UNCHANGED <<nodes, connections, draggedNode, hoveredNode>>]_vars

\* C15 witness: the loop was stopped by destroy after its first frame had
\* run: no callback is scheduled and the velocities that frame produced
\* are still there.
C15_Witness ==
    /\ scheduled = {}
    /\ animationId = 2
    /\ nextHandle = 3
    /\ \E i \in DOMAIN nodes : nodes[i].vx # 0 /\ ~IsNaN(nodes[i].vx)

\* The step is the firing of a pending resize timer
ResizeTimeoutStep == \E t \in timers : resizeTimeoutFired(t)

Abs(a) == IF a < 0 THEN -a ELSE a

\* The distance between nodes a and b after the step
DistanceAfter(a, b) ==
    Sqrt(SumSq(Sub(nodes'[b].x, nodes'[a].x), Sub(nodes'[b].y, nodes'[a].y)))

\* C17 (as claimed): two undragged nodes joined by one connection start at
\* rest far beyond the target length 150; with the default constants every
\* frame strictly decreases the gap between their distance and 150, for as
\* long as the distance is above the target.
C17_SpringGapDecreases ==
    [][(AnimateStep /\ Distance(0, 1) > Px(optimalDist)) =>
          Abs(DistanceAfter(0, 1) - Px(optimalDist))
              < Abs(Distance(0, 1) - Px(optimalDist))]_vars

\* Along one axis the position after the step (posAfter) is on the same
\* side of the center c as the position before it (pos), and not farther
\* from it; from within DeadBand pixels of the center it stays within them
TowardCenter(pos, posAfter, c) ==
    /\ ~IsNaN(posAfter)
    /\ IF Abs(pos - c) < Px(DeadBand)
       THEN Abs(posAfter - c) < Px(DeadBand)
       ELSE /\ pos > c => (c <= posAfter /\ posAfter <= pos)
            /\ pos < c => (pos <= posAfter /\ posAfter <= c)

\* Node i moves toward the center on both axes in this step
NodeTowardCenter(i) ==
    /\ TowardCenter(nodes[i].x, nodes'[i].x, centerX)
    /\ TowardCenter(nodes[i].y, nodes'[i].y, centerY)

Coincident(i) ==
    \E j \in DOMAIN nodes :
        j # i /\ nodes[j].x = nodes[i].x /\ nodes[j].y = nodes[i].y

\* centerAttraction q is at most 0.005
Overdamped(q) == q[1] * 1000 <= 5 * q[2]

NotCloser(i, j) ==
    /\ ~IsNaN(DistanceAfter(i, j))
    /\ DistanceAfter(i, j) >= Distance(i, j)

AlongOffset(vel, d) ==
    /\ d > 0 => vel >= 0
    /\ d < 0 => vel <= 0
    /\ d = 0 => vel = 0

\* Node i is not moving toward node j
NotApproaching(i, j) ==
    /\ AlongOffset(nodes[i].vx, nodes[i].x - nodes[j].x)
    /\ AlongOffset(nodes[i].vy, nodes[i].y - nodes[j].y)

C20_InitialGraph ==
    /\ DOMAIN nodes = 0..7
    /\ \A i \in DOMAIN nodes :
          /\ nodes[i].id = i
          /\ nodes[i].radius = Px(30)
          /\ events = 0 => (nodes[i].vx = 0 /\ nodes[i].vy = 0)
    /\ DOMAIN connections = 1..9
    /\ \A k \in DOMAIN connections :
          /\ connections[k].from \in 0..7
          /\ connections[k].to \in 0..7
          /\ connections[k].from # connections[k].to
          /\ nodes[connections[k].from].name = connectionMap[k][1]
          /\ nodes[connections[k].to].name = connectionMap[k][2]

\* C20 witness: the state right after construction: all eight nodes are at
\* rest, the first connection joins nodes 0 and 6 and the last one joins
\* nodes 1 and 7.
C20_Witness ==
    /\ events = 0
    /\ Cardinality(DOMAIN nodes) = 8
    /\ \A i \in DOMAIN nodes : nodes[i].vx = 0 /\ nodes[i].vy = 0
    /\ Len(connections) = 9
    /\ connections[1] = [from |-> 0, to |-> 6]
    /\ connections[9] = [from |-> 1, to |-> 7]

\* C23 (as claimed): after a 'mouseleave', until the next pointer event on
\* the canvas, hoveredNode stays null and the popup stays hidden: a hover
\* timer that fires while the pointer is outside the canvas neither sets
\* hoveredNode nor shows the popup.
C23_NoHoverAfterLeave ==
    [][(HoverTimeoutStep /\ ~pointerInside) =>
          (hoveredNode' = Null /\ popup'.hidden)]_vars

\* The popup is visible exactly when a node is hovered, and then it shows
\* that node's content
PopupMatchesHover(hovered, pp) ==
    /\ ~pp.hidden <=> hovered # Null
    /\ ~pp.hidden => pp.node = hovered

\* C24: from the first 'mouseleave' or change of the hovered node on, the
\* popup is visible if and only if hoveredNode is non-null, and a visible
\* popup shows the content of hoveredNode: every 'mouseleave' and every step
\* that changes hoveredNode establishes this, and every step (pointer event,
\* timer firing, frame, resize, start, destroy) preserves it.
C24_PopupVisibleIffHovered ==
    [][(\/ PopupMatchesHover(hoveredNode, popup)
        \/ mouseleave
        \/ hoveredNode' # hoveredNode)
       => PopupMatchesHover(hoveredNode', popup')]_vars

\* C24 is exercised: the pointer moved from a node, whose popup was shown,
\* to an empty place of the canvas, and the hover timer hid the popup again.
C24_Witness ==
    /\ pointerInside
    /\ hoveredNode = Null
    /\ popup.hidden
    /\ popup.node # Null
    /\ getNodeAtPosition(nodes, mouseX, mouseY) = Null
    /\ Pending("handleHover") = {}

\* The update in which every node that is not dragged is moved by the force
\* computed from the positions all nodes have in ns, the list at the start
\* of the call
SimultaneousUpdate(ns, conns, dragged, w, h, cx, cy, pr) ==
    [i \in DOMAIN ns |->
        StepNode(ns, conns, i, dragged, w, h, cx, cy, pr)[i]]

\* C25 (as claimed): one call of updatePhysics is a simultaneous update: the
\* nodes after a frame are those obtained by moving every node that is not
\* dragged by the force computed from the positions all nodes had when the
\* call began, so that the order of the nodes in this.nodes has no effect.
C25_SimultaneousUpdate ==
    [][AnimateStep =>
          nodes' = SimultaneousUpdate(nodes, connections, draggedNode, width,
                                      height, centerX, centerY, physics)]_vars

\* C22 (as claimed): while the container has zero size (setupCanvas measured
\* width = 0 or height = 0) the layout is paused: a frame callback changes
\* no node's position or velocity.
C22_ZeroSizePausesLayout ==
    [][(AnimateStep /\ (width = 0 \/ height = 0)) => nodes' = nodes]_vars

\* Math.sqrt(vx * vx + vy * vy) of node i
Speed(i) == Sqrt(SumSq(nodes[i].vx, nodes[i].vy))

\* C21 (as claimed): from the initial placement of the 8 nodes and 9
\* connections, with the default constants and no pointer event, after 1000
\* calls of updatePhysics every node's speed sqrt(vx^2 + vy^2) is below 0.05
\* pixels per step.
C21_SettledAfter1000Steps ==
    events = SettleFrames =>
        \A i \in DOMAIN nodes : ~IsNaN(Speed(i)) /\ 20 * Speed(i) < P

=============================================================================
